---- MODULE Spec2Model ----
(***************************************************************************)
(* Sigrid CI client (sigridci.py): archive packing, the submit / upload /  *)
(* poll protocol of SigridApiClient, and the report pipeline of __main__.  *)
(*                                                                         *)
(* A JSON object is a set of <<key, value>> pairs, so the empty object {}  *)
(* of the code is the empty set.  Ratings are tenths (3.5 is 35).          *)
(***************************************************************************)
EXTENDS Integers, Sequences, FiniteSets, TLC

VARIABLES
    pc,               \* position of the process in __main__ / the client
    attempt,          \* loop variable of the running retry or poll loop
    archiveSize,      \* os.path.getsize(outputFile) in bytes, -1 before packing
    uploadLocation,   \* object returned by obtainUploadLocation
    uploadUrl,        \* submitUpload local, 0 while unset
    analysisId,       \* submitUpload local, 0 while unset
    uploadStatus,     \* status of the PUT response urlopen returned, 0 if none
    mainAnalysisId,   \* __main__ analysisId (what submitUpload returned), 0 while unset
    feedback,         \* object returned by fetchAnalysisResults
    outcome,          \* how the run ended, "Running" until then
    exitStatus,       \* process exit status, -1 while running
    lastLog,          \* the last message passed to log() or print(), "" if none
    locationRequests, \* GETs issued for the upload location
    uploadRequests,   \* PUTs issued for the archive
    uploadTargets,    \* URLs the PUTs were sent to
    pollRequests,     \* GETs issued for the analysis results
    pollIds,          \* analysis ids used in the poll requests
    locationSleeps,   \* time.sleep calls of obtainUploadLocation
    pollSleeps,       \* time.sleep calls of fetchAnalysisResults
    last,             \* the last service response and how it was handled
    reportsRun,       \* sequence of reports whose generate() was entered
    \* a SystemUploadPacker and one prepareUpload call (strings are
    \* sequences of characters)
    packerPc,         \* "none", "new", "constructed", "done" or "raised"
    sourceDir,        \* prepareUpload argument
    outputFile,       \* prepareUpload argument
    files,            \* files below sourceDir before the call, relative paths
    userExcludes,     \* constructor argument excludePatterns
    useRepoHistory,   \* constructor argument
    pathPrefixArg,    \* constructor argument pathPrefix
    excludePatterns,  \* self.excludePatterns
    pathPrefix,       \* self.pathPrefix
    archived,         \* relative paths of the files written to the archive
    zipEntries,       \* entry names of the archive
    \* one call of Report.getRefactoringCandidates
    rcPc,             \* "none", "call", "returned" or "raised"
    rcFeedback,       \* argument feedback, a function from keys to values
    rcMetric,         \* argument metric
    rcResult          \* the list returned

protocolVars ==
    <<pc, attempt, archiveSize, uploadLocation, uploadUrl, analysisId,
      uploadStatus, mainAnalysisId, feedback, outcome, exitStatus, lastLog,
      locationRequests, uploadRequests, uploadTargets, pollRequests, pollIds,
      locationSleeps, pollSleeps, last, reportsRun>>

packerVars ==
    <<packerPc, sourceDir, outputFile, files, userExcludes, useRepoHistory,
      pathPrefixArg, excludePatterns, pathPrefix, archived, zipEntries>>

candidateVars == <<rcPc, rcFeedback, rcMetric, rcResult>>

vars == <<protocolVars, packerVars, candidateVars>>

----------------------------------------------------------------------------
(* Program constants *)

POLL_ATTEMPTS == 30
RETRY_ATTEMPTS == 5
MAX_UPLOAD_SIZE_MB == 500
BytesPerMB == 1024 * 1024
UPLOAD_OK_STATUSES == {200, 201, 202}
AUTH_ERROR_CODES == {401, 403}
targetquality == 35

(* Bounds of the model *)

NumIds == 2
NumUrls == 1

Ids == 1..NumIds
Urls == 1..NumUrls

----------------------------------------------------------------------------
(* JSON objects *)

HasKey(obj, key) == \E p \in obj : p[1] = key

Get(obj, key) == (CHOOSE p \in obj : p[1] = key)[2]

----------------------------------------------------------------------------
(* What the service can answer *)

\* Statuses for which urllib.request.urlopen raises HTTPError.
HttpErrorCodes == {304, 400, 401, 403, 404, 429, 500, 502, 503}

\* A raw answer: kind "status" is a response urlopen returns (2xx), with a
\* body that is absent ("none"), a JSON text ("json", parsed value in obj) or
\* a text json.loads rejects ("malformed"); kind "httperror" is a status
\* urlopen raises as HTTPError; kind "urlerror" is a transport failure.
Raw(kind, code, body, obj) == [kind |-> kind, code |-> code, body |-> body, obj |-> obj]

NoResponse == Raw("none", 0, "none", {})

LocationObjects ==
    { {<<"uploadUrl", u>>, <<"ciRunId", i>>} : u \in Urls, i \in Ids }
    \cup { {<<"ciRunId", i>>} : i \in Ids }
    \cup { {<<"uploadUrl", u>>} : u \in Urls }

FullFeedback == {<<"refactoringCandidatesPerType", 1>>, <<"baseline", 1>>,
                 <<"overallRatings", 1>>, <<"newCodeRatings", 1>>}

FeedbackObjects ==
    { FullFeedback \cup {<<"MAINTAINABILITY", r>>} : r \in {34, 35, 36} }
    \cup { FullFeedback }
    \cup { FullFeedback \ {<<"refactoringCandidatesPerType", 1>>} }
    \cup { {<<"newCodeRatings", 1>>, <<"MAINTAINABILITY", 36>>} }
    \cup { FullFeedback \cup {<<"MAINTAINABILITY", 36>>, <<"UNIT_SIZE", 10>>},
           FullFeedback \cup {<<"MAINTAINABILITY", 34>>, <<"UNIT_SIZE", 40>>},
           FullFeedback \cup {<<"UNIT_SIZE", 10>>} }

ApiResponses(objects) ==
    { Raw("status", 200, "json", o) : o \in objects \cup {{}} }
    \cup { Raw("status", 200, "none", {}),
           Raw("status", 204, "none", {}),
           Raw("status", 200, "malformed", {}),
           Raw("urlerror", 0, "none", {}) }
    \cup { Raw("httperror", c, "none", {}) : c \in HttpErrorCodes }

LocationResponses == ApiResponses(LocationObjects)

PollResponses == ApiResponses(FeedbackObjects)

UploadResponses ==
    { Raw("status", c, "none", {}) : c \in UPLOAD_OK_STATUSES \cup {203, 204} }
    \cup { Raw("httperror", c, "none", {}) : c \in HttpErrorCodes }
    \cup { Raw("urlerror", 0, "none", {}) }

----------------------------------------------------------------------------
(* SigridApiClient.callSigridAPI: what the call returns or raises *)

callSigridAPI(raw) ==
    IF raw.kind = "httperror"
        THEN [ret |-> "HTTPError", code |-> raw.code, value |-> {}, msg |-> ""]
    ELSE IF raw.kind = "urlerror"
        THEN [ret |-> "URLError", code |-> 0, value |-> {}, msg |-> ""]
    ELSE IF raw.code = 204
        THEN [ret |-> "value", code |-> 0, value |-> {}, msg |-> ""]
    ELSE IF raw.body = "none"
        THEN [ret |-> "value", code |-> 0, value |-> {},
              msg |-> "Received empty response"]
    ELSE IF raw.body = "malformed"
        THEN [ret |-> "JSONDecodeError", code |-> 0, value |-> {}, msg |-> ""]
    ELSE [ret |-> "value", code |-> 0, value |-> raw.obj, msg |-> ""]

\* Variant: 404 is not singled out and falls into the final raise.
processHttpError_404Raises(code) ==
    IF code \in AUTH_ERROR_CODES
        THEN [does |-> "exit", outcome |-> "FatalUnauthorized",
              msg |-> "You are not authorized to access Sigrid for this system"]
    ELSE IF code >= 500
        THEN [does |-> "exit", outcome |-> "FatalNotAvailable",
              msg |-> "Sigrid is currently not available"]
    ELSE [does |-> "raise", outcome |-> "HardError", msg |-> ""]

\* Variant: the final branch logs and returns instead of raising.
processHttpError_ClientErrorReturns(code) ==
    IF code \in AUTH_ERROR_CODES
        THEN [does |-> "exit", outcome |-> "FatalUnauthorized",
              msg |-> "You are not authorized to access Sigrid for this system"]
    ELSE IF code = 404
        THEN [does |-> "return", outcome |-> "Running",
              msg |-> "Analysis results not yet available"]
    ELSE IF code >= 500
        THEN [does |-> "exit", outcome |-> "FatalNotAvailable",
              msg |-> "Sigrid is currently not available"]
    ELSE [does |-> "return", outcome |-> "Running", msg |-> "Received HTTP status"]

(* SigridApiClient.processHttpError: "exit", "return" or "raise" *)

processHttpError(code) ==
    IF code \in AUTH_ERROR_CODES
        THEN [does |-> "exit", outcome |-> "FatalUnauthorized",
              msg |-> "You are not authorized to access Sigrid for this system"]
    ELSE IF code = 404
        THEN [does |-> "return", outcome |-> "Running",
              msg |-> "Analysis results not yet available"]
    ELSE IF code >= 500
        THEN [does |-> "exit", outcome |-> "FatalNotAvailable",
              msg |-> "Sigrid is currently not available"]
    ELSE [does |-> "raise", outcome |-> "HardError", msg |-> ""]

----------------------------------------------------------------------------
(* SystemUploadPacker.prepareUpload: the size check *)

Max(a, b) == IF a >= b THEN a ELSE b

\* Python's round(n / d) for integers n >= 0, d > 0: halves go to the even.
Round(n, d) ==
    LET q == n \div d
        r == n % d
    IN  IF 2 * r > d THEN q + 1
        ELSE IF 2 * r < d THEN q
        ELSE IF q % 2 = 0 THEN q ELSE q + 1

uploadSizeMB(size) == Max(Round(size, BytesPerMB), 1)

ExceedsMaximumSize(size) == uploadSizeMB(size) > MAX_UPLOAD_SIZE_MB

\* Archive sizes the packer can produce, in bytes, around the boundaries.
ArchiveSizes ==
    { 1,
      MAX_UPLOAD_SIZE_MB * BytesPerMB + 1,
      MAX_UPLOAD_SIZE_MB * BytesPerMB + BytesPerMB \div 2 + 1,
      (MAX_UPLOAD_SIZE_MB + 1) * BytesPerMB }

----------------------------------------------------------------------------
(* Report.isPassed for the MAINTAINABILITY rating of newCodeRatings *)

\* Variant: the comparison is strict.
isPassed_Strict(fb, metric, targetRating) ==
    (~HasKey(fb, metric)) \/ Get(fb, metric) > targetRating

isPassed(fb, metric, targetRating) ==
    (~HasKey(fb, metric)) \/ Get(fb, metric) >= targetRating

----------------------------------------------------------------------------
(* The process *)

ProtocolInit ==
    /\ pc = "prepareUpload"
    /\ attempt = 0
    /\ archiveSize = -1
    /\ uploadLocation = {}
    /\ uploadUrl = 0
    /\ analysisId = 0
    /\ uploadStatus = 0
    /\ mainAnalysisId = 0
    /\ feedback = {}
    /\ outcome = "Running"
    /\ exitStatus = -1
    /\ lastLog = ""
    /\ locationRequests = 0
    /\ uploadRequests = 0
    /\ uploadTargets = {}
    /\ pollRequests = 0
    /\ pollIds = {}
    /\ locationSleeps = 0
    /\ pollSleeps = 0
    /\ last = [stage |-> "none", raw |-> NoResponse, slept |-> FALSE]
    /\ reportsRun = << >>

\* No packer and no report call is looked at while the protocol runs.
PackerIdle ==
    /\ packerPc = "none"
    /\ sourceDir = << >>
    /\ outputFile = << >>
    /\ files = {}
    /\ userExcludes = << >>
    /\ useRepoHistory = TRUE
    /\ pathPrefixArg = << >>
    /\ excludePatterns = << >>
    /\ pathPrefix = << >>
    /\ archived = {}
    /\ zipEntries = {}

CandidatesIdle ==
    /\ rcPc = "none"
    /\ rcFeedback = << >>
    /\ rcMetric = ""
    /\ rcResult = << >>

Init == ProtocolInit /\ PackerIdle /\ CandidatesIdle

\* sys.exit(1) after a diagnostic, or an exception nobody catches (the
\* interpreter prints the traceback and exits with status 1).
Terminate(how, status, msg) ==
    /\ pc' = "exited"
    /\ outcome' = how
    /\ exitStatus' = status
    /\ lastLog' = IF msg = "" THEN lastLog ELSE msg

\* submitUpload, lines 67-72: pack the archive, check its size.
PrepareUpload ==
    /\ pc = "prepareUpload"
    /\ \E size \in ArchiveSizes :
        /\ archiveSize' = size
        /\ IF ExceedsMaximumSize(size)
              THEN Terminate("HardError", 1, "Upload size is")
              ELSE /\ pc' = "obtainUploadLocation"
                   /\ lastLog' = "Preparing upload"
                   /\ UNCHANGED <<outcome, exitStatus>>
    /\ attempt' = 0
    /\ UNCHANGED <<uploadLocation, uploadUrl, analysisId, uploadStatus,
                   mainAnalysisId, feedback, locationRequests, uploadRequests,
                   uploadTargets, pollRequests, pollIds, locationSleeps,
                   pollSleeps, last, reportsRun>>
    /\ UNCHANGED <<packerVars, candidateVars>>

\* obtainUploadLocation, one iteration of its loop (lines 87-95), with the
\* code after the loop (lines 97-98) when that was the last iteration, and
\* with the rest of submitUpload up to the upload (lines 74-78) when the
\* call returned.
\* Variant: no sys.exit after the loop, so obtainUploadLocation returns None
\* and submitUpload fails on None["uploadUrl"].
LocationLoopEnd_NoExit(msg) ==
    IF attempt + 1 < RETRY_ATTEMPTS
        THEN /\ pc' = pc
             /\ lastLog' = msg
             /\ UNCHANGED <<outcome, exitStatus>>
        ELSE Terminate("HardError", 1, "Sigrid is currently unavailable")

LocationLoopEnd(msg) ==
    IF attempt + 1 < RETRY_ATTEMPTS
        THEN /\ pc' = pc
             /\ lastLog' = msg
             /\ UNCHANGED <<outcome, exitStatus>>
        ELSE Terminate("FatalUnavailable", 1, "Sigrid is currently unavailable")

ObtainUploadLocation ==
    /\ pc = "obtainUploadLocation"
    /\ attempt < RETRY_ATTEMPTS
    /\ \E raw \in LocationResponses :
        LET r == callSigridAPI(raw)
            e == processHttpError(r.code)
            retried == r.ret = "HTTPError" /\ r.code = 502
            returned == r.ret = "value"
            complete == HasKey(r.value, "uploadUrl") /\ HasKey(r.value, "ciRunId")
        IN  /\ last' = [stage |-> "location", raw |-> raw, slept |-> retried]
            /\ locationSleeps' = IF retried THEN locationSleeps + 1 ELSE locationSleeps
            /\ uploadLocation' = IF returned THEN r.value ELSE uploadLocation
            /\ uploadUrl' = IF returned /\ complete
                               THEN Get(r.value, "uploadUrl") ELSE uploadUrl
            /\ analysisId' = IF returned /\ complete
                                THEN Get(r.value, "ciRunId") ELSE analysisId
            /\ IF returned
                  THEN IF complete
                          THEN /\ pc' = "uploadBinaryFile"
                               /\ lastLog' = "Submitting upload"
                               /\ UNCHANGED <<outcome, exitStatus>>
                          ELSE Terminate("HardError", 1, r.msg)
               ELSE IF retried
                  THEN LocationLoopEnd("Retrying")
               ELSE IF r.ret = "HTTPError"
                  THEN IF e.does = "return"
                          THEN LocationLoopEnd(e.msg)
                          ELSE Terminate(e.outcome, 1, e.msg)
               ELSE Terminate("HardError", 1, "")
    /\ attempt' = attempt + 1
    /\ locationRequests' = locationRequests + 1
    /\ UNCHANGED <<archiveSize, uploadStatus, mainAnalysisId, feedback,
                   uploadRequests, uploadTargets, pollRequests, pollIds,
                   pollSleeps, reportsRun>>
    /\ UNCHANGED <<packerVars, candidateVars>>

\* uploadBinaryFile and the end of submitUpload (lines 79-82, 100-108).
UploadStep(accepted, returned) ==
    /\ pc = "uploadBinaryFile"
    /\ \E raw \in UploadResponses :
        /\ last' = [stage |-> "upload", raw |-> raw, slept |-> FALSE]
        /\ uploadStatus' = IF raw.kind = "status" THEN raw.code ELSE 0
        /\ IF raw.kind = "status" /\ raw.code \in accepted
              THEN /\ pc' = "uploaded"
                   /\ mainAnalysisId' = returned
                   /\ UNCHANGED <<outcome, exitStatus, lastLog>>
              ELSE /\ Terminate("HardError", 1, "")
                   /\ UNCHANGED mainAnalysisId
    /\ uploadRequests' = uploadRequests + 1
    /\ uploadTargets' = uploadTargets \cup {uploadUrl}
    /\ UNCHANGED <<attempt, archiveSize, uploadLocation, uploadUrl, analysisId,
                   feedback, locationRequests, pollRequests, pollIds,
                   locationSleeps, pollSleeps, reportsRun>>
    /\ UNCHANGED <<packerVars, candidateVars>>

\* Variant: the result of uploadBinaryFile is not tested, any status that
\* urlopen returns counts as success.
UploadBinaryFile_IgnoresStatus == UploadStep(200..299, analysisId)

\* Variant: submitUpload returns uploadUrl instead of analysisId.
UploadBinaryFile_ReturnsUrl == UploadStep(UPLOAD_OK_STATUSES, uploadUrl)

UploadBinaryFile == UploadStep(UPLOAD_OK_STATUSES, analysisId)

\* __main__ line 389: the call of fetchAnalysisResults(analysisId).
StartPolling ==
    /\ pc = "uploaded"
    /\ pc' = "fetchAnalysisResults"
    /\ attempt' = 0
    /\ UNCHANGED <<archiveSize, uploadLocation, uploadUrl, analysisId,
                   uploadStatus, mainAnalysisId, feedback, outcome, exitStatus,
                   lastLog, locationRequests, uploadRequests, uploadTargets,
                   pollRequests, pollIds, locationSleeps, pollSleeps, last,
                   reportsRun>>
    /\ UNCHANGED <<packerVars, candidateVars>>

\* fetchAnalysisResults, one iteration of its loop (lines 112-123), with the
\* code after the loop (lines 125-126) when that was the last iteration.
\* Variant: no sys.exit after the loop, so fetchAnalysisResults returns None
\* and the reports are run on it.
PollLoopEnd_NoExit ==
    /\ pc' = IF attempt + 1 < POLL_ATTEMPTS THEN pc ELSE "TextReport"
    /\ lastLog' = IF attempt + 1 < POLL_ATTEMPTS
                     THEN "Waiting for analysis results"
                     ELSE "Analysis failed: waiting for analysis results took too long"
    /\ UNCHANGED <<outcome, exitStatus>>

\* Variant: the loop end neither leaves the loop nor exits.
PollLoopEnd_NeverGivesUp ==
    /\ pc' = pc
    /\ lastLog' = "Waiting for analysis results"
    /\ UNCHANGED <<outcome, exitStatus>>

PollLoopEnd ==
    IF attempt + 1 < POLL_ATTEMPTS
        THEN /\ pc' = pc
             /\ lastLog' = "Waiting for analysis results"
             /\ UNCHANGED <<outcome, exitStatus>>
        ELSE Terminate("TimedOut", 1,
                       "Analysis failed: waiting for analysis results took too long")

\* Variant: the sleep comes before the test of the response, so the client
\* also waits after the payload arrived.
FetchAnalysisResults_SleepsBeforeReturn ==
    /\ pc = "fetchAnalysisResults"
    /\ attempt < POLL_ATTEMPTS
    /\ \E raw \in PollResponses :
        LET r == callSigridAPI(raw)
            e == processHttpError(r.code)
            returned == r.ret = "value" /\ r.value # {}
            waits == \/ r.ret = "value"
                     \/ r.ret = "JSONDecodeError"
                     \/ r.ret = "HTTPError" /\ e.does = "return"
        IN  /\ last' = [stage |-> "poll", raw |-> raw, slept |-> waits]
            /\ pollSleeps' = IF waits THEN pollSleeps + 1 ELSE pollSleeps
            /\ feedback' = IF returned THEN r.value ELSE feedback
            /\ IF returned
                  THEN /\ pc' = "TextReport"
                       /\ lastLog' = "Waiting for analysis results"
                       /\ UNCHANGED <<outcome, exitStatus>>
               ELSE IF waits
                  THEN PollLoopEnd
               ELSE IF r.ret = "HTTPError"
                  THEN Terminate(e.outcome, 1, e.msg)
               ELSE Terminate("HardError", 1, "")
    /\ attempt' = attempt + 1
    /\ pollRequests' = pollRequests + 1
    /\ pollIds' = pollIds \cup {mainAnalysisId}
    /\ UNCHANGED <<archiveSize, uploadLocation, uploadUrl, analysisId,
                   uploadStatus, mainAnalysisId, locationRequests, uploadRequests,
                   uploadTargets, locationSleeps, reportsRun>>
    /\ UNCHANGED <<packerVars, candidateVars>>

FetchAnalysisResults ==
    /\ pc = "fetchAnalysisResults"
    /\ attempt < POLL_ATTEMPTS
    /\ \E raw \in PollResponses :
        LET r == callSigridAPI(raw)
            e == processHttpError(r.code)
            returned == r.ret = "value" /\ r.value # {}
            waits == \/ r.ret = "value" /\ r.value = {}
                     \/ r.ret = "JSONDecodeError"
                     \/ r.ret = "HTTPError" /\ e.does = "return"
        IN  /\ last' = [stage |-> "poll", raw |-> raw, slept |-> waits]
            /\ pollSleeps' = IF waits THEN pollSleeps + 1 ELSE pollSleeps
            /\ feedback' = IF returned THEN r.value ELSE feedback
            /\ IF returned
                  THEN /\ pc' = "TextReport"
                       /\ lastLog' = IF r.msg = "" THEN lastLog ELSE r.msg
                       /\ UNCHANGED <<outcome, exitStatus>>
               ELSE IF waits
                  THEN PollLoopEnd
               ELSE IF r.ret = "HTTPError"
                  THEN Terminate(e.outcome, 1, e.msg)
               ELSE Terminate("HardError", 1, "")
    /\ attempt' = attempt + 1
    /\ pollRequests' = pollRequests + 1
    /\ pollIds' = pollIds \cup {mainAnalysisId}
    /\ UNCHANGED <<archiveSize, uploadLocation, uploadUrl, analysisId,
                   uploadStatus, mainAnalysisId, locationRequests, uploadRequests,
                   uploadTargets, locationSleeps, reportsRun>>
    /\ UNCHANGED <<packerVars, candidateVars>>

\* The keys TextReport.generate and StaticHtmlReport.generate index with
\* feedback[...]; a missing one raises KeyError.
RequiredFeedbackKeys ==
    {"refactoringCandidatesPerType", "baseline", "overallRatings", "newCodeRatings"}

Renders(fb) == \A k \in RequiredFeedbackKeys : HasKey(fb, k)

ReportFrame ==
    UNCHANGED <<attempt, archiveSize, uploadLocation, uploadUrl, analysisId,
                uploadStatus, mainAnalysisId, feedback, locationRequests,
                uploadRequests, uploadTargets, pollRequests, pollIds,
                locationSleeps, pollSleeps, last, packerVars, candidateVars>>

\* Variant: the legacy entries are appended to the payload's own list of
\* candidates instead of a new list.
TextReportGenerate_AppendsToPayload ==
    /\ pc = "TextReport"
    /\ reportsRun' = Append(reportsRun, "TextReport")
    /\ feedback' = feedback \cup {<<"refactoringCandidates", 1>>}
    /\ IF Renders(feedback)
          THEN /\ pc' = "StaticHtmlReport"
               /\ lastLog' = "Maintainability ratings"
               /\ UNCHANGED <<outcome, exitStatus>>
          ELSE Terminate("HardError", 1, "")
    /\ UNCHANGED <<attempt, archiveSize, uploadLocation, uploadUrl, analysisId,
                   uploadStatus, mainAnalysisId, locationRequests,
                   uploadRequests, uploadTargets, pollRequests, pollIds,
                   locationSleeps, pollSleeps, last, packerVars, candidateVars>>

\* __main__ lines 391-392, first report: TextReport.generate (lines 243-264).
TextReportGenerate ==
    /\ pc = "TextReport"
    /\ reportsRun' = Append(reportsRun, "TextReport")
    /\ IF Renders(feedback)
          THEN /\ pc' = "StaticHtmlReport"
               /\ lastLog' = "Maintainability ratings"
               /\ UNCHANGED <<outcome, exitStatus>>
          ELSE Terminate("HardError", 1, "")
    /\ ReportFrame

\* Second report: StaticHtmlReport.generate (lines 290-328); reading the
\* template or writing sigrid-ci-output/index.html can fail.
StaticHtmlReportGenerate ==
    /\ pc = "StaticHtmlReport"
    /\ reportsRun' = Append(reportsRun, "StaticHtmlReport")
    /\ \E ioWorks \in BOOLEAN :
        IF ioWorks /\ Renders(feedback)
            THEN /\ pc' = "ExitCodeReport"
                 /\ lastLog' = "You can find more information about these results in Sigrid:"
                 /\ UNCHANGED <<outcome, exitStatus>>
            ELSE Terminate("HardError", 1, "")
    /\ ReportFrame

\* Variant: the failing branch prints its verdict but lacks sys.exit(1).
ExitCodeReportGenerate_NoExit ==
    /\ pc = "ExitCodeReport"
    /\ reportsRun' = Append(reportsRun, "ExitCodeReport")
    /\ IF ~HasKey(feedback, "newCodeRatings")
          THEN Terminate("HardError", 1, "")
          ELSE IF isPassed(feedback, "MAINTAINABILITY", targetquality)
                  THEN Terminate("Succeeded", 0, "YOU WROTE MAINTAINABLE CODE AND REACHED THE TARGET")
                  ELSE Terminate("TargetNotMet", 0, "THE CODE YOU WROTE DID NOT MEET THE TARGET FOR MAINTAINABLE CODE")
    /\ ReportFrame

\* Third report: ExitCodeReport.generate (lines 346-354), then the end of
\* the script.
ExitCodeReportGenerate ==
    /\ pc = "ExitCodeReport"
    /\ reportsRun' = Append(reportsRun, "ExitCodeReport")
    /\ IF ~HasKey(feedback, "newCodeRatings")
          THEN Terminate("HardError", 1, "")
          ELSE IF isPassed(feedback, "MAINTAINABILITY", targetquality)
                  THEN Terminate("Succeeded", 0, "YOU WROTE MAINTAINABLE CODE AND REACHED THE TARGET")
                  ELSE Terminate("TargetNotMet", 1, "THE CODE YOU WROTE DID NOT MEET THE TARGET FOR MAINTAINABLE CODE")
    /\ ReportFrame

Next ==
    \/ PrepareUpload
    \/ ObtainUploadLocation
    \/ UploadBinaryFile
    \/ StartPolling
    \/ FetchAnalysisResults
    \/ TextReportGenerate
    \/ StaticHtmlReportGenerate
    \/ ExitCodeReportGenerate

Spec == Init /\ [][Next]_vars

\* The script runs to its end: every call returns and every sleep completes.
FairSpec == Spec /\ WF_vars(Next)

TypeOK ==
    /\ pc \in {"prepareUpload", "obtainUploadLocation", "uploadBinaryFile",
               "uploaded", "fetchAnalysisResults", "TextReport",
               "StaticHtmlReport", "ExitCodeReport", "exited"}
    /\ attempt \in 0..POLL_ATTEMPTS
    /\ exitStatus \in {-1, 0, 1}
    /\ locationRequests \in 0..RETRY_ATTEMPTS
    /\ uploadRequests \in 0..1
    /\ pollRequests \in 0..POLL_ATTEMPTS

----------------------------------------------------------------------------
(* SystemUploadPacker.  A string is the sequence of its characters. *)

DEFAULT_EXCLUDES ==
    << <<"c", "o", "v", "e", "r", "a", "g", "e", "/">>,
       <<"b", "u", "i", "l", "d", "/">>,
       <<"d", "i", "s", "t", "/">>,
       <<"n", "o", "d", "e", "_", "m", "o", "d", "u", "l", "e", "s", "/">>,
       <<"s", "i", "g", "r", "i", "d", "c", "i", "/">>,
       <<"s", "i", "g", "r", "i", "d", "-", "c", "i", "-", "o", "u", "t", "p", "u", "t", "/">>,
       <<"t", "a", "r", "g", "e", "t", "/">>,
       <<".", "i", "d", "e", "a", "/">>,
       <<".", "j", "p", "g">>,
       <<".", "p", "n", "g">> >>

GitPattern == <<".", "g", "i", "t">>

Whitespace == {" ", "\t"}

RECURSIVE LStrip(_, _)
LStrip(s, chars) ==
    IF s # << >> /\ Head(s) \in chars THEN LStrip(Tail(s), chars) ELSE s

RECURSIVE RStrip(_, _)
RStrip(s, chars) ==
    IF s # << >> /\ s[Len(s)] \in chars
        THEN RStrip(SubSeq(s, 1, Len(s) - 1), chars)
        ELSE s

\* str.strip(chars)
Strip(s, chars) == RStrip(LStrip(s, chars), chars)

\* The operator "in" of two strings.
IsSubstring(p, s) ==
    \E i \in 0..(Len(s) - Len(p)) : SubSeq(s, i + 1, i + Len(p)) = p

StartsWith(s, p) == Len(p) <= Len(s) /\ SubSeq(s, 1, Len(p)) = p

\* filePath.replace("\\", "/")
NormalizePath(filePath) ==
    [i \in 1..Len(filePath) |-> IF filePath[i] = "\\" THEN "/" ELSE filePath[i]]

\* os.path.join(root, file) over the whole walk: the source directory, a
\* separator unless it ends with one, the path below it.
JoinPath(dir, rel) ==
    IF dir = << >> \/ dir[Len(dir)] = "/" THEN dir \o rel ELSE dir \o <<"/">> \o rel

\* The name os.walk yields for a file: the part after the last separator.
RECURSIVE BaseName(_)
BaseName(path) ==
    IF \E i \in 1..Len(path) : path[i] = "/"
        THEN BaseName(Tail(path))
        ELSE path

NotEmptyString(excl) == excl # << >>

\* Variant: the test of useRepoHistory is inverted.
ActivePatterns_HistoryInverted(patterns, history) ==
    DEFAULT_EXCLUDES \o SelectSeq(patterns, NotEmptyString)
        \o (IF history THEN <<GitPattern>> ELSE << >>)

\* __init__, lines 158-162
ActivePatterns(patterns, history) ==
    DEFAULT_EXCLUDES \o SelectSeq(patterns, NotEmptyString)
        \o (IF ~history THEN <<GitPattern>> ELSE << >>)

\* Variant: one slash is removed at each end.
NormalizePrefix_OneSlash(prefix) ==
    LET a == IF prefix # << >> /\ Head(prefix) = "/" THEN Tail(prefix) ELSE prefix
    IN  IF a # << >> /\ a[Len(a)] = "/" THEN SubSeq(a, 1, Len(a) - 1) ELSE a

\* __init__, line 164
NormalizePrefix(prefix) == Strip(prefix, {"/"})

isExcluded(filePath, patterns) ==
    \E i \in 1..Len(patterns) :
        IsSubstring(Strip(patterns[i], Whitespace), NormalizePath(filePath))

getUploadFilePath(prefix, relativePath) ==
    IF prefix = << >> THEN relativePath ELSE prefix \o <<"/">> \o relativePath

\* Where outputFile lies below sourceDir (both relative to the working
\* directory, or absolute), << >> when it lies outside.
OutputRelativePath(dir, output) ==
    IF dir = <<".">>
        THEN IF StartsWith(output, <<"/">>) THEN << >> ELSE output
    ELSE IF StartsWith(output, JoinPath(dir, << >>))
        THEN SubSeq(output, Len(JoinPath(dir, << >>)) + 1, Len(output))
    ELSE << >>

\* What os.walk(sourceDir) lists: zipfile.ZipFile(outputFile, "w") has
\* created the archive before the walk starts.
WalkedFiles(dir, output, tree) ==
    tree \cup (IF OutputRelativePath(dir, output) = << >>
                  THEN {}
                  ELSE {OutputRelativePath(dir, output)})

\* Bounds of the packer inputs
MaxTreeSize == 2
MaxUserPatterns == 1
MaxPrefixLen == 3

SourceDirs == { <<"s", "r", "c">>, <<"b", "u", "i", "l", "d", "/", "p">>, <<".">> }

OutputFiles == { <<"o", ".", "z", "i", "p">>, <<"s", "r", "c", "/", "o", ".", "z", "i", "p">>, <<"/", "t", "m", "p", "/", "o">> }

FileUniverse == { <<"a", ".", "p", "y">>, <<"s", "/", "o", ".", "z", "i", "p">>, <<".", "g", "i", "t", "/", "c">>, <<"b", "u", "i", "l", "d", "/", "a", ".", "p", "y">> }

Trees == { t \in SUBSET FileUniverse : Cardinality(t) <= MaxTreeSize }

UserPatternUniverse == { <<>>, <<" ">>, <<"s", "/">>, <<" ", "s", "/", " ">>, <<".", "g", "i", "t">> }

UserExcludeLists == UNION { [1..n -> UserPatternUniverse] : n \in 0..MaxUserPatterns }

PrefixArgs == UNION { [1..n -> {"/", "b"}] : n \in 0..MaxPrefixLen }

PackerInit ==
    /\ ProtocolInit
    /\ CandidatesIdle
    /\ packerPc = "new"
    /\ sourceDir \in SourceDirs
    /\ outputFile \in OutputFiles
    /\ files \in Trees
    /\ userExcludes \in UserExcludeLists
    /\ useRepoHistory \in BOOLEAN
    /\ pathPrefixArg \in PrefixArgs
    /\ excludePatterns = << >>
    /\ pathPrefix = << >>
    /\ archived = {}
    /\ zipEntries = {}

\* SystemUploadPacker(excludePatterns, useRepoHistory, pathPrefix)
PackerConstruct ==
    /\ packerPc = "new"
    /\ packerPc' = "constructed"
    /\ excludePatterns' = ActivePatterns(userExcludes, useRepoHistory)
    /\ pathPrefix' = NormalizePrefix(pathPrefixArg)
    /\ UNCHANGED <<sourceDir, outputFile, files, userExcludes, useRepoHistory,
                   pathPrefixArg, archived, zipEntries>>
    /\ UNCHANGED <<protocolVars, candidateVars>>

\* prepareUpload(sourceDir, outputFile): the walk, then the size test.
PackerPrepareUpload ==
    /\ packerPc = "constructed"
    /\ LET written == { f \in WalkedFiles(sourceDir, outputFile, files) :
                          /\ BaseName(f) # outputFile
                          /\ ~isExcluded(JoinPath(sourceDir, f), excludePatterns) }
       IN  /\ archived' = written
           /\ zipEntries' = { getUploadFilePath(pathPrefix, f) : f \in written }
    /\ \E size \in ArchiveSizes :
          packerPc' = IF ExceedsMaximumSize(size) THEN "raised" ELSE "done"
    /\ UNCHANGED <<sourceDir, outputFile, files, userExcludes, useRepoHistory,
                   pathPrefixArg, excludePatterns, pathPrefix>>
    /\ UNCHANGED <<protocolVars, candidateVars>>

PackerNext ==
    \/ PackerConstruct
    \/ PackerPrepareUpload

PackerSpec == PackerInit /\ [][PackerNext]_vars

----------------------------------------------------------------------------
(* Report.getRefactoringCandidates.  The feedback argument is a function
   from the keys it carries to their values: "refactoringCandidates" to a
   list of candidates, "refactoringCandidatesPerType" to a map from metric
   to a list of subjects. *)

RECURSIVE RelevantCandidates(_, _)
\* [rc for rc in refactoringCandidates if rc["metric"] == metric]
RelevantCandidates(candidates, metric) ==
    IF candidates = << >>
        THEN << >>
        ELSE (IF Head(candidates).metric = metric THEN <<Head(candidates)>> ELSE << >>)
                \o RelevantCandidates(Tail(candidates), metric)

RECURSIVE AppendLegacy(_, _, _)
\* the loop of lines 229-230
AppendLegacy(relevant, subjects, metric) ==
    IF subjects = << >>
        THEN relevant
        ELSE AppendLegacy(
                 Append(relevant, [subject |-> Head(subjects),
                                   category |-> "introduced",
                                   metric |-> metric]),
                 Tail(subjects), metric)

\* Variant: the legacy entries come before the current-form candidates.
getRefactoringCandidates_LegacyFirst(fb, metric) ==
    LET current  == IF "refactoringCandidates" \in DOMAIN fb
                        THEN fb["refactoringCandidates"] ELSE << >>
        relevant == RelevantCandidates(current, metric)
    IN  IF "refactoringCandidatesPerType" \notin DOMAIN fb
            THEN [raised |-> TRUE, value |-> << >>]
            ELSE LET perType == fb["refactoringCandidatesPerType"]
                     legacy  == IF metric \in DOMAIN perType
                                    THEN perType[metric] ELSE << >>
                 IN  [raised |-> FALSE,
                      value  |-> AppendLegacy(<< >>, legacy, metric) \o relevant]

\* raised: feedback["refactoringCandidatesPerType"] is a KeyError.
getRefactoringCandidates(fb, metric) ==
    LET current  == IF "refactoringCandidates" \in DOMAIN fb
                        THEN fb["refactoringCandidates"] ELSE << >>
        relevant == RelevantCandidates(current, metric)
    IN  IF "refactoringCandidatesPerType" \notin DOMAIN fb
            THEN [raised |-> TRUE, value |-> << >>]
            ELSE LET perType == fb["refactoringCandidatesPerType"]
                     legacy  == IF metric \in DOMAIN perType
                                    THEN perType[metric] ELSE << >>
                 IN  [raised |-> FALSE,
                      value  |-> AppendLegacy(relevant, legacy, metric)]

\* Bounds of the feedback arguments
MaxCandidates == 2
MaxLegacy == 2

RcSubjects == {"x", "y"}
RcCategories == {"introduced", "worsened"}
RcMetrics == {"UNIT_SIZE", "DUPLICATION"}
QueriedMetrics == RcMetrics \cup {"VOLUME"}

Candidates == [subject : RcSubjects, category : RcCategories, metric : RcMetrics]

CurrentForms == UNION { [1..n -> Candidates] : n \in 0..MaxCandidates }

SubjectLists == UNION { [1..n -> RcSubjects] : n \in 0..MaxLegacy }

LegacyMaps == UNION { [D -> SubjectLists] : D \in SUBSET RcMetrics }

MakeFeedback(hasCurrent, current, hasLegacy, legacy) ==
    [k \in (IF hasCurrent THEN {"refactoringCandidates"} ELSE {})
             \cup (IF hasLegacy THEN {"refactoringCandidatesPerType"} ELSE {})
        |-> IF k = "refactoringCandidates" THEN current ELSE legacy]

CandidateFeedbacks ==
    { MakeFeedback(TRUE, c, TRUE, l) : c \in CurrentForms, l \in LegacyMaps }
        \cup { MakeFeedback(TRUE, c, FALSE, << >>) : c \in CurrentForms }
        \cup { MakeFeedback(FALSE, << >>, TRUE, l) : l \in LegacyMaps }
        \cup { MakeFeedback(FALSE, << >>, FALSE, << >>) }

CandidatesInit ==
    /\ ProtocolInit
    /\ PackerIdle
    /\ rcPc = "call"
    /\ rcFeedback \in CandidateFeedbacks
    /\ rcMetric \in QueriedMetrics
    /\ rcResult = << >>

GetRefactoringCandidates ==
    /\ rcPc = "call"
    /\ LET r == getRefactoringCandidates(rcFeedback, rcMetric)
       IN  /\ rcPc' = IF r.raised THEN "raised" ELSE "returned"
           /\ rcResult' = r.value
    /\ UNCHANGED <<rcFeedback, rcMetric>>
    /\ UNCHANGED <<protocolVars, packerVars>>

CandidatesNext == GetRefactoringCandidates

CandidatesSpec == CandidatesInit /\ [][CandidatesNext]_vars

----------------------------------------------------------------------------
(* Vocabulary of the properties *)

IsHttpError(raw, codes) == raw.kind = "httperror" /\ raw.code \in codes

\* 404, or an empty object (204, empty body, {}), or a body json.loads rejects.
NotReady(raw) ==
    \/ IsHttpError(raw, {404})
    \/ /\ raw.kind = "status"
       /\ \/ raw.code = 204
          \/ raw.body \in {"none", "malformed"}
          \/ raw.body = "json" /\ raw.obj = {}

Fatal == {"FatalUnauthorized", "FatalNotAvailable", "FatalUnavailable", "TimedOut"}

\* The process has ended: nothing is requested, slept or reported any more.
Halted == pc = "exited" /\ ~ENABLED Next

Stage ==
    CASE pc = "prepareUpload" -> "Created"
      [] pc = "obtainUploadLocation" -> "LocationRequested"
      [] pc = "uploadBinaryFile" -> "Uploading"
      [] pc = "uploaded" -> "Uploaded"
      [] pc = "fetchAnalysisResults" -> "Polling"
      [] OTHER -> "terminal"

StageRank ==
    CASE Stage = "Created" -> 0
      [] Stage = "LocationRequested" -> 1
      [] Stage = "Uploading" -> 2
      [] Stage = "Uploaded" -> 3
      [] Stage = "Polling" -> 4
      [] OTHER -> 5

----------------------------------------------------------------------------
\* C1: while polling, a 404, an empty object or a malformed body never
\* raises and never ends the run by itself (the run ends then only as the
\* timeout after the 30th attempt); with fewer than 30 attempts made the
\* client is back at the poll request, which is enabled, and the next step
\* it takes is one more poll for the same analysis id.
C1_AfterNotReady == last.stage = "poll" /\ NotReady(last.raw)

C1_NotReadyKeepsPolling ==
    /\ [](C1_AfterNotReady =>
            /\ last.slept
            /\ outcome \in {"Running", "TimedOut"}
            /\ outcome = "TimedOut" <=> pollRequests = POLL_ATTEMPTS
            /\ pollRequests < POLL_ATTEMPTS =>
                  /\ pc = "fetchAnalysisResults"
                  /\ ENABLED FetchAnalysisResults)
    /\ [][(C1_AfterNotReady /\ pollRequests < POLL_ATTEMPTS) =>
            /\ pollRequests' = pollRequests + 1
            /\ pollIds' = pollIds
            /\ mainAnalysisId' = mainAnalysisId
            /\ pollIds' = {mainAnalysisId}]_vars

C1_Witness ==
    /\ C1_AfterNotReady
    /\ IsHttpError(last.raw, {404})
    /\ pollRequests = 2
    /\ pc = "fetchAnalysisResults"

\* C2: at every stage (location request, upload, poll) a 401 or 403 is an
\* authorization failure: the authorization diagnostic is the last line
\* logged, the process exits with status 1, and nothing follows (no sleep
\* in handling it, no further step).
C2_AuthFailureAtEveryStage ==
    IsHttpError(last.raw, {401, 403}) =>
        /\ outcome = "FatalUnauthorized"
        /\ lastLog = "You are not authorized to access Sigrid for this system"
        /\ exitStatus = 1
        /\ ~last.slept
        /\ Halted

\* C3: in obtainUploadLocation only a 502 leads to another location
\* request; after any other HTTP error status (404 included) the run has
\* ended, as fatal or with a hard error.
C3_Only502RetriesLocation ==
    (last.stage = "location" /\ IsHttpError(last.raw, HttpErrorCodes \ {502})) =>
        /\ outcome \in Fatal \cup {"HardError"}
        /\ Halted

\* C4: at most 5 location requests are issued; when all 5 were answered
\* with 502 the run is fatal: "Sigrid is currently unavailable" is logged,
\* the exit status is 1, and no upload and no poll was ever issued.
C4_AllAnswered502 ==
    /\ locationRequests = RETRY_ATTEMPTS
    /\ locationSleeps = RETRY_ATTEMPTS

C4_LocationRetriesExhausted ==
    /\ locationRequests <= 5
    /\ C4_AllAnswered502 =>
          /\ outcome = "FatalUnavailable"
          /\ lastLog = "Sigrid is currently unavailable"
          /\ exitStatus = 1
          /\ uploadRequests = 0
          /\ pollRequests = 0
          /\ Halted

C4_Witness == C4_AllAnswered502 /\ IsHttpError(last.raw, {502}) /\ pc = "exited"

\* C5 as stated: at most 30 polls are issued; when 30 were issued and none
\* of the service's answers was a non-empty well-formed payload, the run
\* ended in TimedOut with the timeout diagnostic, exit status 1 and no report generated.
C5_NoPayloadIn30 ==
    /\ pollRequests = POLL_ATTEMPTS
    /\ feedback = {}
    /\ last.raw.kind \in {"status", "httperror"}

C5_TimedOut ==
    /\ outcome = "TimedOut"
    /\ lastLog = "Analysis failed: waiting for analysis results took too long"
    /\ exitStatus = 1
    /\ reportsRun = << >>
    /\ Halted

C5_Original ==
    /\ pollRequests <= 30
    /\ C5_NoPayloadIn30 => C5_TimedOut

\* C5 amended: at most 30 polls are issued; when all 30 were answered "not
\* ready" (404, empty object or malformed body), the run ended in TimedOut
\* with the timeout diagnostic, exit status 1 and no report generated.
C5_PollTimeout ==
    /\ pollRequests <= 30
    /\ (C5_NoPayloadIn30 /\ NotReady(last.raw)) => C5_TimedOut
    /\ outcome = "TimedOut" => pollRequests = 30 /\ pollSleeps = 30

C5_Witness == C5_NoPayloadIn30 /\ NotReady(last.raw) /\ outcome = "TimedOut"

\* C6: every HTTP status >= 500, except a 502 answered to the location
\* request, is fatal at once: the "not available" diagnostic is logged, the
\* process exits with status 1, nothing follows; so no 5xx is retried
\* while polling.
C6_ServerErrorIsFatal ==
    (/\ last.raw.kind = "httperror"
     /\ last.raw.code >= 500
     /\ ~(last.stage = "location" /\ last.raw.code = 502)) =>
        /\ outcome = "FatalNotAvailable"
        /\ lastLog = "Sigrid is currently not available"
        /\ exitStatus = 1
        /\ ~last.slept
        /\ Halted

\* C7: for every 4xx status other than 401, 403 and 404 processHttpError
\* raises; in the location request and in polling the exception leaves the
\* loop: the run has ended with a hard error, without sleep, and nothing
\* follows.
C7_OtherClientErrors == (400..499) \ {401, 403, 404}

C7_ClientErrorRaised ==
    /\ last.stage \in {"location", "poll"}
    /\ IsHttpError(last.raw, C7_OtherClientErrors)

C7_ClientErrorRaises ==
    /\ \A c \in C7_OtherClientErrors : processHttpError(c).does = "raise"
    /\ C7_ClientErrorRaised =>
          /\ outcome = "HardError"
          /\ ~last.slept
          /\ Halted
          /\ last.stage = "location" => uploadRequests = 0 /\ pollRequests = 0

C7_Witness ==
    /\ C7_ClientErrorRaised
    /\ last.stage = "poll"
    /\ pollRequests = 3
    /\ outcome = "HardError"

\* C8: the archive is PUT at most once, and exactly once in every run that
\* got past the upload; the upload succeeds only on status 200, 201 or 202;
\* on every other outcome the run has ended with a hard error: no second
\* PUT, no analysis id returned to __main__, no poll.
C8_UploadFailed ==
    /\ uploadRequests > 0
    /\ uploadStatus \notin {200, 201, 202}

C8_UploadOnce ==
    /\ uploadRequests <= 1
    /\ (Stage \in {"Uploaded", "Polling"} \/ mainAnalysisId # 0 \/ pollRequests > 0) =>
          /\ uploadRequests = 1
          /\ uploadStatus \in {200, 201, 202}
    /\ C8_UploadFailed =>
          /\ last.stage = "upload"
          /\ outcome = "HardError"
          /\ exitStatus = 1
          /\ mainAnalysisId = 0
          /\ pollRequests = 0
          /\ Halted

C8_Witness == C8_UploadFailed /\ uploadStatus = 204 /\ pc = "exited"

\* C9: the stages are passed in the order Created, LocationRequested,
\* Uploading, Uploaded, Polling, terminal, none re-entered: a step stays in
\* its stage, moves to the next one or ends the run; the PUT goes to the
\* uploadUrl of a location response that also carried ciRunId; polls happen
\* only after a successful upload and carry that ciRunId; once polling
\* started no location request and no upload is issued.
C9_LocationComplete ==
    /\ locationRequests > 0
    /\ uploadLocation = {<<"uploadUrl", uploadUrl>>, <<"ciRunId", analysisId>>}
    /\ uploadUrl \in Urls
    /\ analysisId \in Ids

C9_StageOrder ==
    /\ [](/\ uploadRequests > 0 => C9_LocationComplete /\ uploadTargets = {uploadUrl}
          /\ Stage \in {"Uploading", "Uploaded", "Polling"} => C9_LocationComplete
          /\ pollRequests > 0 =>
                /\ C9_LocationComplete
                /\ uploadRequests = 1
                /\ uploadStatus \in UPLOAD_OK_STATUSES
                /\ pollIds = {Get(uploadLocation, "ciRunId")}
          /\ Stage = "Created" => locationRequests = 0
          /\ Stage \in {"Created", "LocationRequested"} => uploadRequests = 0
          /\ Stage \in {"Created", "LocationRequested", "Uploading", "Uploaded"} =>
                pollRequests = 0)
    /\ [][/\ StageRank' \in {StageRank, StageRank + 1, 5}
          /\ locationRequests' # locationRequests => Stage = "LocationRequested"
          /\ uploadRequests' # uploadRequests => Stage = "Uploading"
          /\ pollRequests' # pollRequests => Stage = "Polling"
          /\ (Stage = "Polling" \/ pollRequests > 0) =>
                /\ locationRequests' = locationRequests
                /\ uploadRequests' = uploadRequests]_vars

C9_Witness ==
    /\ Stage = "Polling"
    /\ pollRequests = 2
    /\ locationRequests = 2
    /\ pollIds = {2}

\* C10: whenever the archive prepareUpload wrote is larger than
\* MAX_UPLOAD_SIZE_MB megabytes, prepareUpload raised: the run ended with a
\* hard error before any location request, upload or poll.
C10_SizeLimitBeforeNetwork ==
    archiveSize > MAX_UPLOAD_SIZE_MB * BytesPerMB =>
        /\ outcome = "HardError"
        /\ locationRequests = 0
        /\ uploadRequests = 0
        /\ pollRequests = 0
        /\ Halted

----------------------------------------------------------------------------
AllReports == <<"TextReport", "StaticHtmlReport", "ExitCodeReport">>

\* C11: once ExitCodeReport.generate has run, the exit status is non-zero
\* exactly when newCodeRatings has a MAINTAINABILITY rating strictly below
\* the target; an absent rating and one equal to or above the target pass,
\* whatever the ratings of the other metrics are.
C11_ExitCodeReportRan == Len(reportsRun) = 3 /\ pc = "exited"

C11_BelowTarget ==
    \E p \in feedback : p[1] = "MAINTAINABILITY" /\ p[2] < targetquality

C11_ExitCodeIffBelowTarget ==
    C11_ExitCodeReportRan =>
        /\ reportsRun[3] = "ExitCodeReport"
        /\ exitStatus # 0 <=> C11_BelowTarget
        /\ exitStatus = 0 <=> outcome = "Succeeded"
        /\ exitStatus # 0 <=> outcome = "TargetNotMet"

C11_Witness ==
    /\ C11_ExitCodeReportRan
    /\ <<"MAINTAINABILITY", 35>> \in feedback
    /\ exitStatus = 0

\* C12: the exit status is 0 only after polling delivered a non-empty
\* payload whose MAINTAINABILITY rating met the target or was absent; every
\* other end of the run (authorization failure, service not available,
\* retries exhausted, poll timeout, hard error, target not met) has a
\* non-zero exit status.
C12_ExitZeroOnlyOnSuccess ==
    /\ pc = "exited" <=> exitStatus \in {0, 1}
    /\ pc = "exited" <=> outcome # "Running"
    /\ exitStatus = 0 =>
          /\ outcome = "Succeeded"
          /\ feedback # {}
          /\ last.stage = "poll" /\ last.raw.obj = feedback
          /\ ~C11_BelowTarget
          /\ reportsRun = AllReports
    /\ outcome \in Fatal \cup {"HardError", "TargetNotMet"} => exitStatus = 1

C12_Witness ==
    /\ outcome = "TargetNotMet"
    /\ exitStatus = 1
    /\ <<"UNIT_SIZE", 40>> \in feedback

\* C13: for every payload polling returned, all three reports are run,
\* ExitCodeReport last, also when TextReport or StaticHtmlReport raised.
C13_AllReportsRun ==
    (pc = "exited" /\ feedback # {}) => reportsRun = AllReports

\* C20: fetchAnalysisResults returns the first non-empty well-formed
\* payload it receives, unchanged: every earlier poll was followed by a
\* sleep, the returning one is not, and afterwards no poll is issued and no
\* sleep performed; what it returns is never the empty object.
C20_Returned == pc \in {"TextReport", "StaticHtmlReport", "ExitCodeReport"}

C20_ReturnsFirstPayload ==
    /\ [](/\ C20_Returned => feedback # {}
          /\ feedback # {} =>
                /\ last.stage = "poll"
                /\ last.raw = Raw("status", 200, "json", feedback)
                /\ ~last.slept
                /\ pollSleeps = pollRequests - 1
                /\ StageRank = 5)
    /\ [][/\ (/\ pollRequests' # pollRequests
              /\ last'.raw.kind = "status" /\ last'.raw.code # 204
              /\ last'.raw.body = "json" /\ last'.raw.obj # {}) =>
                /\ feedback' = last'.raw.obj
                /\ pc' = "TextReport"
          /\ feedback' # feedback => feedback = {} /\ pollRequests' = pollRequests + 1
          /\ feedback # {} =>
                /\ feedback' = feedback
                /\ pollRequests' = pollRequests
                /\ pollSleeps' = pollSleeps]_vars

C20_Witness ==
    /\ C20_Returned
    /\ pollRequests = 3
    /\ pollSleeps = 2
    /\ <<"MAINTAINABILITY", 34>> \in feedback

----------------------------------------------------------------------------
(* Vocabulary of the packer properties *)

\* prepareUpload has walked the source tree and closed the archive.
PackerWalked == packerPc \in {"done", "raised"}

PatternSet(patterns) == { patterns[i] : i \in 1..Len(patterns) }

GitDir == <<".", "g", "i", "t", "/">>

\* Some pattern of the list, trimmed, is a substring of the normalized path.
MatchesSome(path, patterns) ==
    \E e \in PatternSet(patterns) :
        IsSubstring(Strip(e, Whitespace), NormalizePath(path))

\* The archive is written outside the walked tree and no file of the tree
\* carries the name given as outputFile.
OutputRuleIdle ==
    /\ OutputRelativePath(sourceDir, outputFile) = << >>
    /\ \A f \in files : BaseName(f) # outputFile

Slashes(n) == [k \in 1..n |-> "/"]

\* C14: the archive holds exactly the files of the source tree whose path
\* relative to the source root contains no active exclusion pattern; where
\* the source directory lies and how it is called plays no part.
C14_EntriesAreFilesMinusExcluded ==
    (PackerWalked /\ OutputRuleIdle) =>
        archived = { f \in files : ~MatchesSome(f, excludePatterns) }

C16_BlankPatternExcludesNothing ==
    PackerWalked =>
        \A f \in WalkedFiles(sourceDir, outputFile, files) \ archived :
            BaseName(f) # outputFile =>
                \E e \in PatternSet(excludePatterns) :
                    /\ Strip(e, Whitespace) # << >>
                    /\ IsSubstring(Strip(e, Whitespace),
                                   NormalizePath(JoinPath(sourceDir, f)))

\* C17: with the archive written inside the source directory, the archive is
\* not an entry of itself, and every other file that is left out is left out
\* by an exclusion pattern.
C17_ArchiveNotInItself ==
    (PackerWalked /\ OutputRelativePath(sourceDir, outputFile) # << >>) =>
        /\ OutputRelativePath(sourceDir, outputFile) \notin archived
        /\ \A f \in files \ {OutputRelativePath(sourceDir, outputFile)} :
              f \notin archived =>
                  MatchesSome(JoinPath(sourceDir, f), excludePatterns)

\* C18: the normalized prefix is the configured prefix without its leading
\* and trailing slashes; an entry is prefix, one separator, relative path,
\* or the bare relative path when the normalized prefix is empty.
C18_PrefixNormalized ==
    /\ packerPc # "new" =>
          /\ pathPrefix # << >> =>
                Head(pathPrefix) # "/" /\ pathPrefix[Len(pathPrefix)] # "/"
          /\ \E i, j \in 0..Len(pathPrefixArg) :
                pathPrefixArg = Slashes(i) \o pathPrefix \o Slashes(j)
          /\ (\A k \in 1..Len(pathPrefixArg) : pathPrefixArg[k] = "/")
                => pathPrefix = << >>
    /\ PackerWalked =>
          zipEntries = { IF pathPrefix = << >>
                            THEN f
                            ELSE pathPrefix \o <<"/">> \o f : f \in archived }

C18_Witness ==
    /\ PackerWalked
    /\ pathPrefixArg = <<"/", "b", "/">>
    /\ pathPrefix = <<"b">>
    /\ <<"b", "/", "a", ".", "p", "y">> \in zipEntries

\* The candidates of the current form carried by the payload, and the
\* subjects the legacy map lists under the queried metric.
CurrentFormOf(fb) ==
    IF "refactoringCandidates" \in DOMAIN fb THEN fb["refactoringCandidates"] ELSE << >>

LegacyFormOf(fb, metric) ==
    IF metric \in DOMAIN fb["refactoringCandidatesPerType"]
        THEN fb["refactoringCandidatesPerType"][metric]
        ELSE << >>

C19_OfQueriedMetric(rc) == rc.metric = rcMetric

SleepsBetween(requests, looping) ==
    IF looping \/ requests = 0 THEN requests ELSE requests - 1

\* C21: in the location loop and in the poll loop the client has slept once
\* between every two consecutive attempts and nowhere else: a further attempt
\* is never made without a sleep before it, and no sleep follows the last
\* attempt of a loop.
C21_SleepsOnlyBetweenAttempts ==
    /\ locationSleeps = SleepsBetween(locationRequests, pc = "obtainUploadLocation")
    /\ pollSleeps = SleepsBetween(pollRequests, pc = "fetchAnalysisResults")

\* The run is over with one of its outcomes; an outcome of the report stage
\* stands for a delivered payload.
C22_Terminal ==
    /\ pc = "exited"
    /\ outcome \in {"Succeeded", "TargetNotMet", "TimedOut", "HardError"} \cup Fatal
    /\ outcome \in {"Succeeded", "TargetNotMet"} => feedback # {}

\* C22: when every call returns and every sleep completes, each run reaches
\* a terminal outcome, whatever the service answers, and has issued at most
\* 5 location requests, 1 upload and 30 poll requests.
C22_Terminates ==
    /\ <>C22_Terminal
    /\ [](/\ locationRequests <= RETRY_ATTEMPTS
          /\ uploadRequests <= 1
          /\ pollRequests <= POLL_ATTEMPTS)

C22_Witness ==
    /\ C22_Terminal
    /\ outcome = "TimedOut"
    /\ locationRequests = RETRY_ATTEMPTS
    /\ uploadRequests = 1
    /\ pollRequests = POLL_ATTEMPTS

\* The payload carries candidates in one form only.
C23_OnlyCurrentForm ==
    DOMAIN rcFeedback = {"refactoringCandidates"}

C23_OnlyLegacyForm ==
    DOMAIN rcFeedback = {"refactoringCandidatesPerType"}

\* C23: on a payload with only the current list the call returns the
\* current-form candidates of the queried metric; on a payload with only the
\* legacy map it returns the legacy entries of that metric, converted; it
\* raises in neither case.
C23_OneFormSucceeds ==
    rcPc \in {"returned", "raised"} =>
        /\ C23_OnlyCurrentForm =>
              /\ rcPc = "returned"
              /\ rcResult = SelectSeq(rcFeedback["refactoringCandidates"],
                                      C19_OfQueriedMetric)
        /\ C23_OnlyLegacyForm =>
              /\ rcPc = "returned"
              /\ rcResult =
                    [i \in 1..Len(LegacyFormOf(rcFeedback, rcMetric)) |->
                        [subject |-> LegacyFormOf(rcFeedback, rcMetric)[i],
                         category |-> "introduced",
                         metric |-> rcMetric]]

\* A report is about to run or has run.
C24_ReportStage ==
    pc \in {"TextReport", "StaticHtmlReport", "ExitCodeReport"} \/ reportsRun # << >>

\* C24: no report changes the payload: in the report stage the payload is
\* the object the last poll returned, each report leaves it as it found it,
\* and so ExitCodeReport decides on the payload fetchAnalysisResults returned.
C24_PayloadUnmodified ==
    /\ [](C24_ReportStage =>
            /\ last.stage = "poll"
            /\ feedback # {}
            /\ feedback = last.raw.obj)
    /\ [][reportsRun' # reportsRun => feedback' = feedback]_vars

C24_Witness ==
    /\ reportsRun = AllReports
    /\ feedback = last.raw.obj
    /\ feedback = FullFeedback \cup {<<"MAINTAINABILITY", 36>>, <<"UNIT_SIZE", 10>>}

====
